---- MODULE Spec2Model ----
(***************************************************************************)
(* Model of MTS.cpp: Task, its three variants, and TaskExecutor            *)
(* (addTask, requestStop, runAll with one std::thread per task).           *)
(*                                                                         *)
(* One worker is the lambda of runAll (lines 92-117); its position is      *)
(* pc[i].  Steps that only read the worker's own task (the tests at lines  *)
(* 98 and 103) are folded into the step that precedes them; every access   *)
(* to shared state (coutMutex, std::cout, stopRequested) is its own step.  *)
(***************************************************************************)
EXTENDS Integers, Sequences, FiniteSets, TLC

\* ---------------------------------------------------------------- bounds
MaxTasks == 2
MaxStopCalls == 2
MaxCount == 2
MaxTime == 5
MaxDelay == 2
MaxInterval == 2
MaxLimit == 4

\* ------------------------------------------------------- tasks (Task, variants)
\* Task objects the orchestrator can build: the three of main() and one whose
\* timing fields are negative.
Printer ==
    [name |-> "Printer", kind |-> "Print", arg |-> 0,
     delayMs |-> 1000, repeating |-> TRUE, repeatIntervalMs |-> 500]

Waiter ==
    [name |-> "Waiter", kind |-> "Wait", arg |-> 2,
     delayMs |-> 2000, repeating |-> FALSE, repeatIntervalMs |-> 0]

Calculator ==
    [name |-> "Calculator", kind |-> "Compute", arg |-> 100,
     delayMs |-> 3000, repeating |-> FALSE, repeatIntervalMs |-> 0]

Negative ==
    [name |-> "Negative", kind |-> "Compute", arg |-> 3,
     delayMs |-> -1, repeating |-> TRUE, repeatIntervalMs |-> -1]

TaskPool == {Printer, Waiter, Calculator, Negative}

getDelay(t) == t.delayMs

isRepeating(t) == t.repeating

\* An accessor that returns the wrong field.
getRepeatInterval_AsDelay(t) == t.delayMs

getRepeatInterval(t) == t.repeatIntervalMs

\* A loop whose test is i < limit: the last term is left out.
RECURSIVE SumLoop_OffByOne(_, _, _)
SumLoop_OffByOne(i, limit, sum) ==
    IF ~(i < limit) THEN sum
    ELSE SumLoop_OffByOne(i + 1, limit, sum + i)

\* ComputeTask::execute, lines 64-66: for (i = 1; i <= limit; ++i) sum += i
\* (two iterations of the loop per unfolding, to halve the evaluation depth).
RECURSIVE SumLoop(_, _, _)
SumLoop(i, limit, sum) ==
    IF ~(i <= limit) THEN sum
    ELSE IF ~(i + 1 <= limit) THEN sum + i
    ELSE SumLoop(i + 2, limit, (sum + i) + (i + 1))

ComputeSum(limit) == SumLoop(1, limit, 0)

\* ----------------------------------------------------------------- state
VARIABLES
    tasks,          \* TaskExecutor::tasks
    stopRequested,  \* TaskExecutor::stopRequested
    coutMutex,      \* TaskExecutor::coutMutex: 0 = free, i = held by worker i
    runPc,          \* position of the thread calling runAll
    spawned,        \* workers.size() in runAll
    joined,         \* number of workers the join loop has joined
    pc,             \* position of each worker's lambda
    writing,        \* workers that have begun a line on std::cout and not ended it
    sum,            \* ComputeTask::execute's local sum, as printed in this run
    startCount,     \* "[START]" lines written by the worker in this run
    endCount,       \* "[END]" lines written by the worker in this run
    execCount,      \* execute() calls made by the worker in this run
    passCount,      \* tests of line 104 by the worker in this run that read the flag unset
    stopCalls,      \* calls of requestStop so far
    now,            \* the clock (moves in the timed specification only)
    wake,           \* the time each worker's sleep_for in progress is due to end
    stopAt,         \* the time of the store of line 85 that set the flag; -1 before
    nExec           \* execute() calls made by the worker, counted without limit

progVars == <<tasks, stopRequested, coutMutex, runPc, spawned, joined, pc, writing, sum>>

histVars == <<startCount, endCount, execCount, passCount>>

callVars == <<stopCalls>>

timeVars == <<now, wake, stopAt, nExec>>

vars == <<progVars, histVars, callVars, timeVars>>

Workers == 1..MaxTasks

Bump(n) == IF n < MaxCount THEN n + 1 ELSE MaxCount

Init ==
    /\ tasks = <<>>
    /\ stopRequested = FALSE
    /\ coutMutex = 0
    /\ runPc = "idle"
    /\ spawned = 0
    /\ joined = 0
    /\ pc = [i \in Workers |-> "unspawned"]
    /\ writing = {}
    /\ sum = [i \in Workers |-> 0]
    /\ startCount = [i \in Workers |-> 0]
    /\ endCount = [i \in Workers |-> 0]
    /\ execCount = [i \in Workers |-> 0]
    /\ passCount = [i \in Workers |-> 0]
    /\ stopCalls = 0
    /\ now = 0
    /\ wake = [i \in Workers |-> 0]
    /\ stopAt = -1
    /\ nExec = [i \in Workers |-> 0]

\* ------------------------------------------------------------ TaskExecutor
Running == runPc \in {"spawning", "joining"}

\* addTask, lines 80-82.  The orchestrator registers tasks while no runAll is
\* in progress (main, lines 142-144); the vector is not guarded against a
\* push_back during runAll's iteration.
addTask(task) ==
    /\ ~Running
    /\ Len(tasks) < MaxTasks
    /\ tasks' = Append(tasks, task)
    /\ runPc' = "idle"
    /\ UNCHANGED <<stopRequested, coutMutex, spawned, joined, pc, writing, sum>>
    /\ UNCHANGED <<histVars, callVars>>
    /\ UNCHANGED timeVars

\* A requestStop that flips the flag instead of setting it.
requestStop_Toggle ==
    /\ stopCalls < MaxStopCalls
    /\ stopCalls' = stopCalls + 1
    /\ stopRequested' = ~stopRequested
    /\ UNCHANGED <<tasks, coutMutex, runPc, spawned, joined, pc, writing, sum>>
    /\ UNCHANGED histVars
    /\ UNCHANGED timeVars

\* A requestStop that also cuts short the sleeps in progress.
requestStop_Interrupt ==
    /\ stopCalls < MaxStopCalls
    /\ stopCalls' = stopCalls + 1
    /\ stopRequested' = TRUE
    /\ pc' = [i \in Workers |->
                IF pc[i] \in {"delaying", "body_sleep", "interval"} THEN "end_lock" ELSE pc[i]]
    /\ UNCHANGED <<tasks, coutMutex, runPc, spawned, joined, writing, sum>>
    /\ UNCHANGED histVars
    /\ UNCHANGED timeVars

\* requestStop, lines 84-86.  Callable from any thread at any time.
requestStopStep ==
    /\ stopCalls < MaxStopCalls
    /\ stopCalls' = stopCalls + 1
    /\ stopRequested' = TRUE
    /\ UNCHANGED <<tasks, coutMutex, runPc, spawned, joined, pc, writing, sum>>
    /\ UNCHANGED histVars

\* requestStop, with the clock and the sleeps in progress left alone.
requestStop ==
    /\ requestStopStep
    /\ UNCHANGED timeVars

\* A runAll that re-arms the scheduler: it clears the stop flag before spawning.
runAllCall_ResetStop ==
    /\ ~Running
    /\ runPc' = "spawning"
    /\ spawned' = 0
    /\ joined' = 0
    /\ pc' = [i \in Workers |-> "unspawned"]
    /\ startCount' = [i \in Workers |-> 0]
    /\ endCount' = [i \in Workers |-> 0]
    /\ execCount' = [i \in Workers |-> 0]
    /\ passCount' = [i \in Workers |-> 0]
    /\ sum' = [i \in Workers |-> 0]
    /\ stopRequested' = FALSE
    /\ UNCHANGED <<tasks, coutMutex, writing, stopCalls>>
    /\ UNCHANGED timeVars

\* runAll entry, lines 88-89: a fresh, empty workers vector (and a fresh record
\* of what this run's workers have written and executed).
runAllCall ==
    /\ ~Running
    /\ runPc' = "spawning"
    /\ spawned' = 0
    /\ joined' = 0
    /\ pc' = [i \in Workers |-> "unspawned"]
    /\ startCount' = [i \in Workers |-> 0]
    /\ endCount' = [i \in Workers |-> 0]
    /\ execCount' = [i \in Workers |-> 0]
    /\ passCount' = [i \in Workers |-> 0]
    /\ sum' = [i \in Workers |-> 0]
    /\ UNCHANGED <<tasks, stopRequested, coutMutex, writing, stopCalls>>
    /\ UNCHANGED timeVars

\* A spawn loop that joins each thread before creating the next.
Spawn_Serial ==
    /\ runPc = "spawning"
    /\ spawned < Len(tasks)
    /\ IF spawned = 0 THEN TRUE ELSE pc[spawned] = "done"
    /\ spawned' = spawned + 1
    /\ pc' = [pc EXCEPT ![spawned + 1] = "start_lock"]
    /\ UNCHANGED <<tasks, stopRequested, coutMutex, runPc, joined, writing, sum>>
    /\ UNCHANGED <<histVars, callVars>>
    /\ UNCHANGED timeVars

\* lines 91-92, 118: one iteration of the spawn loop.
Spawn ==
    /\ runPc = "spawning"
    /\ spawned < Len(tasks)
    /\ spawned' = spawned + 1
    /\ pc' = [pc EXCEPT ![spawned + 1] = "start_lock"]
    /\ UNCHANGED <<tasks, stopRequested, coutMutex, runPc, joined, writing, sum>>
    /\ UNCHANGED <<histVars, callVars>>
    /\ UNCHANGED timeVars

\* line 91 loop exit: all tasks have a thread; go on to the join loop.
SpawnDone ==
    /\ runPc = "spawning"
    /\ spawned = Len(tasks)
    /\ runPc' = "joining"
    /\ UNCHANGED <<tasks, stopRequested, coutMutex, spawned, joined, pc, writing, sum>>
    /\ UNCHANGED <<histVars, callVars>>
    /\ UNCHANGED timeVars

\* A join loop that does not wait for the thread (detach instead of join).
Join_NoWait ==
    /\ runPc = "joining"
    /\ joined < spawned
    /\ joined' = joined + 1
    /\ UNCHANGED <<tasks, stopRequested, coutMutex, runPc, spawned, pc, writing, sum>>
    /\ UNCHANGED <<histVars, callVars>>
    /\ UNCHANGED timeVars

\* lines 120-123: t.join() returns once that thread's lambda has returned.
Join ==
    /\ runPc = "joining"
    /\ joined < spawned
    /\ pc[joined + 1] = "done"
    /\ joined' = joined + 1
    /\ UNCHANGED <<tasks, stopRequested, coutMutex, runPc, spawned, pc, writing, sum>>
    /\ UNCHANGED <<histVars, callVars>>
    /\ UNCHANGED timeVars

\* line 124: runAll returns.
runAllReturn ==
    /\ runPc = "joining"
    /\ joined = spawned
    /\ runPc' = "returned"
    /\ UNCHANGED <<tasks, stopRequested, coutMutex, spawned, joined, pc, writing, sum>>
    /\ UNCHANGED <<histVars, callVars>>
    /\ UNCHANGED timeVars

\* ------------------------------------------------------------------ worker
\* A do-while loop: the first execute of a repeating task is not preceded by a test.
AfterDelay_DoWhile(t) == "exec"

\* A worker that tests the stop flag before a non-repeating task too.
AfterDelay_AlwaysCheck(t) == "loop_check"

\* line 103, evaluated by the step that reaches it.
AfterDelay(t) == IF isRepeating(t) THEN "loop_check" ELSE "exec"

\* line 98, evaluated by the step that reaches it.
AfterStart(t) == IF getDelay(t) > 0 THEN "delaying" ELSE AfterDelay(t)

\* end of execute(): back to line 106 in the loop, or on to line 113.
AfterExecute(t) == IF isRepeating(t) THEN "interval" ELSE "end_lock"

\* A worker that writes its [START] line without waiting for the lock.
StartLock_NoWait(i) ==
    /\ pc[i] = "start_lock"
    /\ coutMutex' = i
    /\ pc' = [pc EXCEPT ![i] = "start_write"]
    /\ UNCHANGED <<tasks, stopRequested, runPc, spawned, joined, writing, sum>>
    /\ UNCHANGED <<histVars, callVars>>
    /\ UNCHANGED timeVars

\* line 94: lock_guard constructor.
StartLock(i) ==
    /\ pc[i] = "start_lock"
    /\ coutMutex = 0
    /\ coutMutex' = i
    /\ pc' = [pc EXCEPT ![i] = "start_write"]
    /\ UNCHANGED <<tasks, stopRequested, runPc, spawned, joined, writing, sum>>
    /\ UNCHANGED <<histVars, callVars>>
    /\ UNCHANGED timeVars

\* line 95: cout << "[START] " << name ...
StartWrite(i) ==
    /\ pc[i] = "start_write"
    /\ writing' = writing \cup {i}
    /\ pc' = [pc EXCEPT ![i] = "start_endl"]
    /\ UNCHANGED <<tasks, stopRequested, coutMutex, runPc, spawned, joined, sum>>
    /\ UNCHANGED <<histVars, callVars>>
    /\ UNCHANGED timeVars

\* line 95: ... << std::endl
StartEndl(i) ==
    /\ pc[i] = "start_endl"
    /\ writing' = writing \ {i}
    /\ startCount' = [startCount EXCEPT ![i] = Bump(@)]
    /\ pc' = [pc EXCEPT ![i] = "start_unlock"]
    /\ UNCHANGED <<tasks, stopRequested, coutMutex, runPc, spawned, joined, sum>>
    /\ UNCHANGED <<endCount, execCount, passCount, callVars>>
    /\ UNCHANGED timeVars

\* line 96: lock_guard destructor; then the test of line 98.
StartUnlockStep(i) ==
    /\ pc[i] = "start_unlock"
    /\ coutMutex' = 0
    /\ pc' = [pc EXCEPT ![i] = AfterStart(tasks[i])]
    /\ UNCHANGED <<tasks, stopRequested, runPc, spawned, joined, writing, sum>>
    /\ UNCHANGED <<histVars, callVars>>

\* A lock_guard whose scope is the whole lambda: the lock is kept past line 96.
StartUnlock_HoldLock(i) ==
    /\ pc[i] = "start_unlock"
    /\ pc' = [pc EXCEPT ![i] = AfterStart(tasks[i])]
    /\ UNCHANGED <<tasks, stopRequested, coutMutex, runPc, spawned, joined, writing, sum>>
    /\ UNCHANGED <<histVars, callVars>>
    /\ UNCHANGED timeVars

\* line 96, with no account of time.
StartUnlock(i) ==
    /\ StartUnlockStep(i)
    /\ UNCHANGED timeVars

\* lines 99-100: the initial delay elapses; then the test of line 103.
Delay(i) ==
    /\ pc[i] = "delaying"
    /\ pc' = [pc EXCEPT ![i] = AfterDelay(tasks[i])]
    /\ UNCHANGED <<tasks, stopRequested, coutMutex, runPc, spawned, joined, writing, sum>>
    /\ UNCHANGED <<histVars, callVars>>
    /\ UNCHANGED timeVars

\* A loop that also ends by itself, after one execution.
LoopCheck_OneRepeat(i) ==
    /\ pc[i] = "loop_check"
    /\ pc' = [pc EXCEPT ![i] =
                IF stopRequested \/ execCount[i] >= 1 THEN "end_lock" ELSE "exec"]
    /\ passCount' = [passCount EXCEPT ![i] =
                IF stopRequested \/ execCount[i] >= 1 THEN @ ELSE Bump(@)]
    /\ UNCHANGED <<tasks, stopRequested, coutMutex, runPc, spawned, joined, writing, sum>>
    /\ UNCHANGED <<startCount, endCount, execCount, callVars>>
    /\ UNCHANGED timeVars

\* A loop that returns from the lambda when it sees the flag, skipping line 113-116.
LoopCheck_SkipEnd(i) ==
    /\ pc[i] = "loop_check"
    /\ pc' = [pc EXCEPT ![i] = IF stopRequested THEN "done" ELSE "exec"]
    /\ passCount' = [passCount EXCEPT ![i] = IF stopRequested THEN @ ELSE Bump(@)]
    /\ UNCHANGED <<tasks, stopRequested, coutMutex, runPc, spawned, joined, writing, sum>>
    /\ UNCHANGED <<startCount, endCount, execCount, callVars>>
    /\ UNCHANGED timeVars

\* line 104: while (!stopRequested.load())
LoopCheck(i) ==
    /\ pc[i] = "loop_check"
    /\ pc' = [pc EXCEPT ![i] = IF stopRequested THEN "end_lock" ELSE "exec"]
    /\ passCount' = [passCount EXCEPT ![i] = IF stopRequested THEN @ ELSE Bump(@)]
    /\ UNCHANGED <<tasks, stopRequested, coutMutex, runPc, spawned, joined, writing, sum>>
    /\ UNCHANGED <<startCount, endCount, execCount, callVars>>
    /\ UNCHANGED timeVars

\* lines 105/110 and the first << of the body (lines 41, 52, 64-68):
\* execute() is entered and begins its line on std::cout, holding no lock.
ExecuteStep(i) ==
    /\ pc[i] = "exec"
    /\ writing' = writing \cup {i}
    /\ sum' = [sum EXCEPT ![i] =
                 IF tasks[i].kind = "Compute" THEN ComputeSum(tasks[i].arg) ELSE @]
    /\ execCount' = [execCount EXCEPT ![i] = Bump(@)]
    /\ pc' = [pc EXCEPT ![i] = "body_endl"]
    /\ UNCHANGED <<tasks, stopRequested, coutMutex, runPc, spawned, joined>>
    /\ UNCHANGED <<startCount, endCount, passCount, callVars>>

\* lines 105/110, with no account of time.
Execute(i) ==
    /\ ExecuteStep(i)
    /\ UNCHANGED timeVars

\* the std::endl of the body (lines 41, 52, 68); WaitTask then sleeps.
BodyEndlStep(i) ==
    /\ pc[i] = "body_endl"
    /\ writing' = writing \ {i}
    /\ pc' = [pc EXCEPT ![i] =
                IF tasks[i].kind = "Wait" THEN "body_sleep" ELSE AfterExecute(tasks[i])]
    /\ UNCHANGED <<tasks, stopRequested, coutMutex, runPc, spawned, joined, sum>>
    /\ UNCHANGED <<histVars, callVars>>

\* the end of the body's line, with no account of time.
BodyEndl(i) ==
    /\ BodyEndlStep(i)
    /\ UNCHANGED timeVars

\* line 53: WaitTask's sleep_for returns.
BodySleep(i) ==
    /\ pc[i] = "body_sleep"
    /\ pc' = [pc EXCEPT ![i] = AfterExecute(tasks[i])]
    /\ UNCHANGED <<tasks, stopRequested, coutMutex, runPc, spawned, joined, writing, sum>>
    /\ UNCHANGED <<histVars, callVars>>
    /\ UNCHANGED timeVars

\* A loop that tests the flag only every other iteration.
Interval_NoRecheck(i) ==
    /\ pc[i] = "interval"
    /\ pc' = [pc EXCEPT ![i] = IF execCount[i] = 1 THEN "exec" ELSE "loop_check"]
    /\ UNCHANGED <<tasks, stopRequested, coutMutex, runPc, spawned, joined, writing, sum>>
    /\ UNCHANGED <<histVars, callVars>>
    /\ UNCHANGED timeVars

\* lines 106-107: the repeat interval elapses; back to line 104.
Interval(i) ==
    /\ pc[i] = "interval"
    /\ pc' = [pc EXCEPT ![i] = "loop_check"]
    /\ UNCHANGED <<tasks, stopRequested, coutMutex, runPc, spawned, joined, writing, sum>>
    /\ UNCHANGED <<histVars, callVars>>
    /\ UNCHANGED timeVars

\* line 114: lock_guard constructor.
EndLock(i) ==
    /\ pc[i] = "end_lock"
    /\ coutMutex = 0
    /\ coutMutex' = i
    /\ pc' = [pc EXCEPT ![i] = "end_write"]
    /\ UNCHANGED <<tasks, stopRequested, runPc, spawned, joined, writing, sum>>
    /\ UNCHANGED <<histVars, callVars>>
    /\ UNCHANGED timeVars

\* line 115: cout << "[END] " << name ...
EndWrite(i) ==
    /\ pc[i] = "end_write"
    /\ writing' = writing \cup {i}
    /\ pc' = [pc EXCEPT ![i] = "end_endl"]
    /\ UNCHANGED <<tasks, stopRequested, coutMutex, runPc, spawned, joined, sum>>
    /\ UNCHANGED <<histVars, callVars>>
    /\ UNCHANGED timeVars

\* line 115: ... << std::endl
EndEndl(i) ==
    /\ pc[i] = "end_endl"
    /\ writing' = writing \ {i}
    /\ endCount' = [endCount EXCEPT ![i] = Bump(@)]
    /\ pc' = [pc EXCEPT ![i] = "end_unlock"]
    /\ UNCHANGED <<tasks, stopRequested, coutMutex, runPc, spawned, joined, sum>>
    /\ UNCHANGED <<startCount, execCount, passCount, callVars>>
    /\ UNCHANGED timeVars

\* An [END] block placed inside the loop with no break after it.
EndUnlock_InsideLoop(i) ==
    /\ pc[i] = "end_unlock"
    /\ coutMutex' = 0
    /\ pc' = [pc EXCEPT ![i] = IF isRepeating(tasks[i]) THEN "loop_check" ELSE "done"]
    /\ UNCHANGED <<tasks, stopRequested, runPc, spawned, joined, writing, sum>>
    /\ UNCHANGED <<histVars, callVars>>
    /\ UNCHANGED timeVars

\* A worker that returns without releasing coutMutex.
EndUnlock_NoRelease(i) ==
    /\ pc[i] = "end_unlock"
    /\ pc' = [pc EXCEPT ![i] = "done"]
    /\ UNCHANGED <<tasks, stopRequested, coutMutex, runPc, spawned, joined, writing, sum>>
    /\ UNCHANGED <<histVars, callVars>>
    /\ UNCHANGED timeVars

\* lines 116-117: lock_guard destructor; the lambda returns.
EndUnlock(i) ==
    /\ pc[i] = "end_unlock"
    /\ coutMutex' = 0
    /\ pc' = [pc EXCEPT ![i] = "done"]
    /\ UNCHANGED <<tasks, stopRequested, runPc, spawned, joined, writing, sum>>
    /\ UNCHANGED <<histVars, callVars>>
    /\ UNCHANGED timeVars

WorkerStep(i) ==
    \/ StartLock(i)
    \/ StartWrite(i)
    \/ StartEndl(i)
    \/ StartUnlock(i)
    \/ Delay(i)
    \/ LoopCheck(i)
    \/ Execute(i)
    \/ BodyEndl(i)
    \/ BodySleep(i)
    \/ Interval(i)
    \/ EndLock(i)
    \/ EndWrite(i)
    \/ EndEndl(i)
    \/ EndUnlock(i)

RunAllStep ==
    \/ Spawn
    \/ SpawnDone
    \/ Join
    \/ runAllReturn

Next ==
    \/ \E task \in TaskPool : addTask(task)
    \/ requestStop
    \/ runAllCall
    \/ RunAllStep
    \/ \E i \in Workers : WorkerStep(i)

Spec == Init /\ [][Next]_vars

Positions ==
    {"unspawned", "start_lock", "start_write", "start_endl", "start_unlock",
     "delaying", "loop_check", "exec", "body_endl", "body_sleep", "interval",
     "end_lock", "end_write", "end_endl", "end_unlock", "done"}

TypeOK ==
    /\ tasks \in Seq(TaskPool) /\ Len(tasks) <= MaxTasks
    /\ stopRequested \in BOOLEAN
    /\ coutMutex \in 0..MaxTasks
    /\ runPc \in {"idle", "spawning", "joining", "returned"}
    /\ spawned \in 0..Len(tasks) /\ joined \in 0..spawned
    /\ pc \in [Workers -> Positions]
    /\ writing \subseteq Workers
    /\ sum \in [Workers -> Int]
    /\ startCount \in [Workers -> 0..MaxCount]
    /\ endCount \in [Workers -> 0..MaxCount]
    /\ execCount \in [Workers -> 0..MaxCount]
    /\ passCount \in [Workers -> 0..MaxCount]
    /\ stopCalls \in 0..MaxStopCalls

\* Threads are scheduled fairly, sleeps elapse and execute returns.
LiveSpec ==
    /\ Spec
    /\ WF_vars(RunAllStep)
    /\ \A i \in Workers : WF_vars(WorkerStep(i))

\* As LiveSpec, but WaitTask's blocking work (line 53) need never return.
BlockSpec ==
    /\ Spec
    /\ WF_vars(RunAllStep)
    /\ \A i \in Workers : WF_vars(pc[i] # "body_sleep" /\ WorkerStep(i))

Registered == 1..Len(tasks)

\* ------------------------------------------------------------------- time
\* One repeating task run against a clock.  Times are in the unit of delayMs
\* and repeatIntervalMs.  sleep_for(d) returns no sooner than d after it was
\* called and any step may be late, so the clock may move between any two steps
\* (in particular while execute is in progress: execute takes any time >= 0).
TimedTasks ==
    {[name |-> "Printer", kind |-> "Print", arg |-> 0,
      delayMs |-> d, repeating |-> TRUE, repeatIntervalMs |-> iv] :
        d \in 0..MaxDelay, iv \in 1..MaxInterval}

\* The executor after addTask(t), lines 80-82; the clock starts with runAll.
TimedInit ==
    /\ \E t \in TimedTasks : tasks = <<t>>
    /\ stopRequested = FALSE
    /\ coutMutex = 0
    /\ runPc = "idle"
    /\ spawned = 0
    /\ joined = 0
    /\ pc = [i \in Workers |-> "unspawned"]
    /\ writing = {}
    /\ sum = [i \in Workers |-> 0]
    /\ startCount = [i \in Workers |-> 0]
    /\ endCount = [i \in Workers |-> 0]
    /\ execCount = [i \in Workers |-> 0]
    /\ passCount = [i \in Workers |-> 0]
    /\ stopCalls = 0
    /\ now = 0
    /\ wake = [i \in Workers |-> 0]
    /\ stopAt = -1
    /\ nExec = [i \in Workers |-> 0]

\* std::this_thread::sleep_for(d), lines 99 and 106: due to end d from now.
SleepFor(i, d) == wake' = [wake EXCEPT ![i] = now + d]

\* sleep_for returns: not before it is due.
Elapsed(i) == now >= wake[i]

Tick ==
    /\ Running
    /\ now < MaxTime
    /\ now' = now + 1
    /\ UNCHANGED <<progVars, histVars, callVars, wake, stopAt, nExec>>

\* runAll is called once, at time 0.
TimedRunAllCall ==
    /\ runPc = "idle"
    /\ runAllCall

\* requestStop, line 85: the first store sets the flag, at time stopAt.
TimedRequestStop ==
    /\ requestStopStep
    /\ stopAt' = IF stopRequested THEN stopAt ELSE now
    /\ UNCHANGED <<now, wake, nExec>>

\* lines 96-100: the lock is released and, if the delay is positive, the
\* initial sleep_for begins.
TimedStartUnlock(i) ==
    /\ StartUnlockStep(i)
    /\ IF getDelay(tasks[i]) > 0
         THEN SleepFor(i, getDelay(tasks[i]))
         ELSE UNCHANGED wake
    /\ UNCHANGED <<now, stopAt, nExec>>

\* lines 99-100: the initial sleep_for returns.
TimedDelay(i) ==
    /\ Elapsed(i)
    /\ Delay(i)

\* line 105: execute is called.
TimedExecute(i) ==
    /\ ExecuteStep(i)
    /\ nExec' = [nExec EXCEPT ![i] = @ + 1]
    /\ UNCHANGED <<now, wake, stopAt>>

\* execute returns and, in the loop, the sleep_for of line 106 begins.
TimedBodyEndl(i) ==
    /\ BodyEndlStep(i)
    /\ IF isRepeating(tasks[i])
         THEN SleepFor(i, getRepeatInterval(tasks[i]))
         ELSE UNCHANGED wake
    /\ UNCHANGED <<now, stopAt, nExec>>

\* lines 106-107: the sleep_for of the repeat interval returns.
TimedInterval(i) ==
    /\ Elapsed(i)
    /\ Interval(i)

TimedWorkerStep(i) ==
    \/ StartLock(i)
    \/ StartWrite(i)
    \/ StartEndl(i)
    \/ TimedStartUnlock(i)
    \/ TimedDelay(i)
    \/ LoopCheck(i)
    \/ TimedExecute(i)
    \/ TimedBodyEndl(i)
    \/ TimedInterval(i)
    \/ EndLock(i)
    \/ EndWrite(i)
    \/ EndEndl(i)
    \/ EndUnlock(i)

TimedNext ==
    \/ TimedRunAllCall
    \/ TimedRequestStop
    \/ RunAllStep
    \/ \E i \in Workers : TimedWorkerStep(i)
    \/ Tick

TimedSpec == TimedInit /\ [][TimedNext]_vars

\* ceil(a / b) for b > 0
CeilDiv(a, b) == -((-a) \div b)

Max(a, b) == IF a >= b THEN a ELSE b

\* ----------------------------------------------------------------- faults
\* A Task subclass (line 33: execute is pure virtual) whose execute writes its
\* line and returns, or throws.
Faulty ==
    [name |-> "Faulty", kind |-> "Faulty", arg |-> 0,
     delayMs |-> 0, repeating |-> FALSE, repeatIntervalMs |-> 0]

FaultPool == TaskPool \cup {Faulty}

\* lines 92-117: the lambda has no handler, so an exception leaving execute
\* (lines 105, 110) leaves the thread function and std::terminate ends the
\* process: every other worker and the thread in runAll stop where they are.
Throw(i) ==
    /\ pc[i] = "exec"
    /\ tasks[i].kind = "Faulty"
    /\ pc' = [j \in Workers |->
                IF j = i THEN "faulted"
                ELSE IF pc[j] \in {"unspawned", "done"} THEN pc[j]
                ELSE "aborted"]
    /\ runPc' = "aborted"
    /\ UNCHANGED <<tasks, stopRequested, coutMutex, spawned, joined, writing, sum>>
    /\ UNCHANGED <<histVars, callVars, timeVars>>

\* Nothing is called in a process that std::terminate has ended.
Alive == runPc # "aborted"

FaultAddTask(task) ==
    /\ Alive
    /\ addTask(task)

FaultRequestStop ==
    /\ Alive
    /\ requestStop

FaultRunAllCall ==
    /\ Alive
    /\ runAllCall

FaultNext ==
    \/ \E task \in FaultPool : FaultAddTask(task)
    \/ FaultRequestStop
    \/ FaultRunAllCall
    \/ RunAllStep
    \/ \E i \in Workers : WorkerStep(i)
    \/ \E i \in Workers : Throw(i)

FaultSpec == Init /\ [][FaultNext]_vars


\* ------------------------------------------------- ComputeTask over a range
\* The limits given to ComputeTask's constructor (line 59): a range around 0
\* and the limit main gives it (line 138).
ComputeLimits == (-1 .. MaxLimit) \cup {Calculator.arg}

\* A ComputeTask with limit n, made repeating with no delay and no interval.
ComputeOf(n) ==
    [name |-> "Calculator", kind |-> "Compute", arg |-> n,
     delayMs |-> 0, repeating |-> TRUE, repeatIntervalMs |-> 0]

\* The executor after addTask(ComputeOf(n)); addTask(t), lines 80-82.
ComputeInit ==
    /\ \E n \in ComputeLimits, t \in TaskPool : tasks = <<ComputeOf(n), t>>
    /\ stopRequested = FALSE
    /\ coutMutex = 0
    /\ runPc = "idle"
    /\ spawned = 0
    /\ joined = 0
    /\ pc = [i \in Workers |-> "unspawned"]
    /\ writing = {}
    /\ sum = [i \in Workers |-> 0]
    /\ startCount = [i \in Workers |-> 0]
    /\ endCount = [i \in Workers |-> 0]
    /\ execCount = [i \in Workers |-> 0]
    /\ passCount = [i \in Workers |-> 0]
    /\ stopCalls = 0
    /\ now = 0
    /\ wake = [i \in Workers |-> 0]
    /\ stopAt = -1
    /\ nExec = [i \in Workers |-> 0]

ComputeNext ==
    \/ runAllCall
    \/ requestStop
    \/ RunAllStep
    \/ \E i \in Workers : WorkerStep(i)

ComputeSpec == ComputeInit /\ [][ComputeNext]_vars

\* ------------------------------------------------------------------ claims

\* C1: no worker ever writes a second [START] or a second [END] line in a run,
\* and when runAll has returned every registered task's worker has written
\* exactly one of each.
C1_OneStartOneEnd ==
    /\ \A i \in Workers : startCount[i] <= 1 /\ endCount[i] <= 1
    /\ runPc = "returned" => \A i \in Registered : startCount[i] = 1 /\ endCount[i] = 1

C1_Witness ==
    /\ runPc = "returned"
    /\ Len(tasks) >= 2
    /\ \E i \in Registered : isRepeating(tasks[i]) /\ execCount[i] >= 1
    /\ \E i \in Registered : ~isRepeating(tasks[i])

\* C2: a repeating task's worker never terminates without having executed the
\* task at least once, whatever the stop flag was when it was spawned.
C2_FirstExecuteAlways ==
    \A i \in Registered :
        (isRepeating(tasks[i]) /\ pc[i] = "done") => execCount[i] >= 1

\* C3: when runAll has returned, every registered task's worker has finished
\* (its [END] line written) and no worker is at any other position.
C3_ReturnAfterAllTerminal ==
    runPc = "returned" =>
        /\ \A i \in Registered : pc[i] = "done" /\ endCount[i] >= 1
        /\ \A i \in Workers : pc[i] \in {"done", "unspawned"}

C3_Witness ==
    /\ runPc = "returned"
    /\ \E i, j \in Registered :
        /\ i < j
        /\ tasks[i].kind = "Wait"
        /\ isRepeating(tasks[j])
        /\ execCount[j] >= 2

\* C4: a non-repeating task is never executed twice in a run, and has been
\* executed exactly once when its worker has finished, whether or not the stop
\* flag was set before or during the run.
C4_NonRepeatingOnce ==
    \A i \in Registered :
        ~isRepeating(tasks[i]) =>
            /\ execCount[i] <= 1
            /\ pc[i] = "done" => execCount[i] = 1

\* The flag was set before the repeating worker's first check (it never
\* executed), and the non-repeating task spawned after it still executed.
C4_Witness ==
    \E i, j \in Registered :
        /\ j < i
        /\ isRepeating(tasks[j])
        /\ pc[j] = "done"
        /\ execCount[j] = 0
        /\ ~isRepeating(tasks[i])
        /\ pc[i] = "done"

\* C5: at most one worker at a time is in the middle of a line on std::cout,
\* the lines of the task bodies included.
C5_NoInterleaving == Cardinality(writing) <= 1

\* C6: once set the stop flag stays set, a loop check made while it is set
\* leaves the loop, and a repeating worker comes to begin an execute only from
\* a loop check that read the flag unset; so after the flag is set a worker
\* begins at most the one execute whose check came before.
C6_StopEndsLoop ==
    /\ [][stopRequested => stopRequested']_vars
    /\ [][\A i \in Registered :
            (pc[i] = "loop_check" /\ stopRequested /\ pc'[i] # pc[i])
                => pc'[i] = "end_lock"]_vars
    /\ [][\A i \in Registered :
            (isRepeating(tasks[i]) /\ pc'[i] = "exec" /\ pc[i] # "exec")
                => (pc[i] = "loop_check" /\ ~stopRequested)]_vars

C6_Witness ==
    \E i \in Registered :
        /\ isRepeating(tasks[i])
        /\ execCount[i] >= 2
        /\ stopRequested
        /\ pc[i] = "end_lock"

\* C7: under fair scheduling, once the stop flag is set every spawned worker
\* reaches the end of its lambda and a runAll in progress returns.
C7_ShutdownTerminates ==
    /\ (Running /\ stopRequested) ~> (runPc = "returned")
    /\ \A i \in Workers :
        (stopRequested /\ pc[i] # "unspawned") ~> (pc[i] = "done")

C7_Witness ==
    /\ runPc = "returned"
    /\ stopRequested
    /\ Len(tasks) >= 2
    /\ \A i \in Registered : isRepeating(tasks[i]) /\ execCount[i] >= 1

\* C8: a requestStop made when the flag is already set changes nothing, and
\* after any number (at least one) of calls the flag is set.
C8_RequestStopIdempotent ==
    /\ [](stopCalls >= 1 => stopRequested)
    /\ [][(stopCalls' # stopCalls /\ stopRequested)
            => UNCHANGED <<progVars, histVars>>]_vars

C8_Witness ==
    /\ stopCalls >= 2
    /\ Running
    /\ \E i \in Registered : isRepeating(tasks[i]) /\ pc[i] = "interval"

\* C9: requestStop changes the stop flag only: the task list, the output lock,
\* runAll's position and every worker's position are as they were.
C9_RequestStopFrame ==
    [][stopCalls' # stopCalls
        => UNCHANGED <<tasks, coutMutex, runPc, spawned, joined, pc, writing, sum,
                       histVars>>]_vars

C9_Witness ==
    /\ stopCalls = 1
    /\ \E i, j \in Registered :
        /\ isRepeating(tasks[i])
        /\ execCount[i] >= 1
        /\ pc[i] = "interval"
        /\ pc[j] = "body_sleep"

\* C10: even if WaitTask's sleep never returns, once the stop flag is set every
\* worker of the run in progress either finishes or is the one blocked in its
\* own execute.
C10_BlockedWorkerIsolated ==
    \A i \in Workers :
        (Running /\ stopRequested /\ i \in Registered)
            ~> (pc[i] \in {"done", "body_sleep"})

C10_Witness ==
    \E i, j \in Registered :
        /\ i < j
        /\ pc[i] = "body_sleep"
        /\ pc[j] = "done"
        /\ isRepeating(tasks[j])
        /\ execCount[j] >= 1

\* The bound of C11 for worker i, with T = stopAt: ceil((T - D) / I) + 1.
C11_Bound(i) ==
    CeilDiv(stopAt - tasks[i].delayMs, tasks[i].repeatIntervalMs) + 1

\* C11 (as stated): when the worker of a repeating task with interval I > 0 and
\* delay D has finished, the flag having been set at time T, the task has been
\* executed at most ceil((T - D) / I) + 1 times.
C11_CountBoundAsStated ==
    \A i \in Registered :
        (isRepeating(tasks[i]) /\ tasks[i].repeatIntervalMs > 0 /\ stopAt >= 0
            /\ pc[i] = "done")
            => nExec[i] <= C11_Bound(i)

\* C11 (amended): at every moment after the flag has been set at time T, a
\* repeating task with interval I > 0 and delay D has been executed at most
\* max(0, ceil((T - D) / I) + 1) times.
C11_CountBound ==
    \A i \in Registered :
        (isRepeating(tasks[i]) /\ tasks[i].repeatIntervalMs > 0 /\ stopAt >= 0)
            => nExec[i] <= Max(0, C11_Bound(i))

\* The bound is met: the flag was set after the delay and the worker has
\* finished with exactly ceil((T - D) / I) + 1 >= 3 executions.
C11_Witness ==
    \E i \in Registered :
        /\ pc[i] = "done"
        /\ stopAt > tasks[i].delayMs
        /\ tasks[i].delayMs > 0
        /\ nExec[i] >= 3
        /\ nExec[i] = C11_Bound(i)

\* C12: a fault raised by one task's execute stops neither runAll nor any
\* sibling worker: no worker is cut off before the end of its lambda and the
\* thread in runAll goes on to return.
C12_FaultConfined ==
    \A i \in Registered :
        pc[i] = "faulted" =>
            /\ runPc # "aborted"
            /\ \A j \in Registered \ {i} : pc[j] # "aborted"

\* C13: no registered task has a negative initial delay or a negative repeat
\* interval (addTask has rejected it), so no worker is spawned for one.
C13_NegativeTimingRejected ==
    \A i \in Registered :
        tasks[i].delayMs >= 0 /\ tasks[i].repeatIntervalMs >= 0

\* Positions inside the emission of the [START] or the [END] line, lock held.
Emitting ==
    {"start_write", "start_endl", "start_unlock", "end_write", "end_endl", "end_unlock"}

\* Positions after the [START] block and before the [END] block.
Working == {"delaying", "loop_check", "exec", "body_endl", "body_sleep", "interval"}

\* C14: a worker that is delaying, executing or waiting, or has executed, has
\* written its [START] line and not yet its [END] line; a worker that has
\* written its [END] line is at the end of its lambda; and a finished worker
\* stays finished, executing and writing nothing more, until a later runAll
\* replaces it.
C14_LifecycleOrder ==
    /\ [](\A i \in Workers :
            /\ (pc[i] \in Working \/ execCount[i] >= 1) => startCount[i] = 1
            /\ pc[i] \in Working => endCount[i] = 0
            /\ endCount[i] >= 1 => pc[i] \in {"end_unlock", "done"})
    /\ [][\A i \in Workers :
            pc[i] = "done" =>
                \/ /\ pc'[i] = "done"
                   /\ startCount'[i] = startCount[i]
                   /\ endCount'[i] = endCount[i]
                   /\ execCount'[i] = execCount[i]
                   /\ (i \in writing') = (i \in writing)
                \/ ~Running /\ runPc' = "spawning"]_vars

C14_Witness ==
    \E i, j \in Registered :
        /\ isRepeating(tasks[i])
        /\ pc[i] = "done"
        /\ execCount[i] >= 2
        /\ pc[j] \in Working
        /\ Running

\* C15: at most one worker at a time is inside the emission of a [START] or
\* [END] line, and that worker holds coutMutex.
C15_EmissionsExclusive ==
    /\ Cardinality({i \in Workers : pc[i] \in Emitting}) <= 1
    /\ \A i \in Workers : pc[i] \in Emitting => coutMutex = i

\* One worker is emitting while two others wait for the lock (one other, when
\* only two tasks are registered).
C15_Witness ==
    \E i, j \in Registered :
        /\ pc[i] \in Emitting
        /\ pc[j] \in {"start_lock", "end_lock"}
        /\ i > j

\* C16: a worker holds coutMutex only inside its own [START] or [END]
\* emission: never while delaying, executing, waiting its interval, or finished.
C16_LockOnlyInEmission ==
    \A i \in Workers : coutMutex = i => pc[i] \in Emitting

\* A worker sleeps in its execute while another one emits.
C16_Witness ==
    \E i, j \in Registered :
        /\ pc[i] = "body_sleep"
        /\ pc[j] \in Emitting
        /\ coutMutex = j

\* C17: for a repeating task, the executions a worker has made or entered are
\* as many as its tests of line 104 that read the flag unset; a worker enters
\* execute only by such a test of its own; and a test that reads the flag set
\* sends the worker to its [END] line with no execution added.
C17_ExecuteIffCheckPassed ==
    /\ [](\A i \in Registered :
            isRepeating(tasks[i]) =>
                passCount[i] =
                    IF execCount[i] = MaxCount
                    THEN MaxCount
                    ELSE execCount[i] + (IF pc[i] = "exec" THEN 1 ELSE 0))
    /\ [][\A i \in Registered :
            /\ (isRepeating(tasks[i]) /\ pc'[i] = "exec" /\ pc[i] # "exec")
                    => /\ pc[i] = "loop_check"
                       /\ ~stopRequested
                       /\ passCount'[i] = Bump(passCount[i])
            /\ (pc[i] = "loop_check" /\ pc'[i] # "loop_check" /\ stopRequested)
                    => /\ pc'[i] = "end_lock"
                       /\ passCount'[i] = passCount[i]
                       /\ execCount'[i] = execCount[i]]_vars

\* Two repeating workers have finished: the first test of one read the flag
\* set, the other executed twice before a test of its own read it set.
C17_Witness ==
    \E i, j \in Registered :
        /\ isRepeating(tasks[i]) /\ isRepeating(tasks[j])
        /\ pc[i] = "done" /\ pc[j] = "done"
        /\ passCount[i] = 0 /\ execCount[i] = 0
        /\ passCount[j] = 2 /\ execCount[j] = 2

\* C18: the stop flag starts unset, only a call of requestStop changes it,
\* and once set no step (addTask, a call of runAll, a worker's step, runAll's
\* spawning, joining or return) clears it: a later runAll starts with it set.
C18_StopFlagMonotone ==
    /\ [](stopCalls = 0 => ~stopRequested)
    /\ [][stopRequested' # stopRequested => stopCalls' # stopCalls]_vars
    /\ [][stopRequested => stopRequested']_vars
    /\ [][(stopRequested /\ ~Running /\ runPc' = "spawning")
            => (stopRequested' /\ Running')]_vars

\* The flag was set during a run whose repeating worker had executed; the run
\* has returned, a task has been added since, and the flag is still set as the
\* next runAll is about to be called.
C18_Witness ==
    /\ stopRequested
    /\ runPc = "idle"
    /\ Len(tasks) = 2
    /\ isRepeating(tasks[1])
    /\ pc[1] = "done" /\ execCount[1] >= 1 /\ endCount[1] = 1
    /\ pc[2] = "unspawned"

\* Positions from the [END] block on: the worker has left its loop.
Leaving == {"end_lock", "end_write", "end_endl", "end_unlock", "done"}

\* C19: as long as the stop flag is unset, no worker of a repeating task
\* leaves its loop and a runAll that has a repeating task does not return;
\* such a worker goes on executing again and again unless the flag is set,
\* while every worker of a non-repeating task finishes.
C19_NoStopNoReturn ==
    /\ [](~stopRequested =>
            \A i \in Registered :
                isRepeating(tasks[i]) => (pc[i] \notin Leaving /\ runPc # "returned"))
    /\ \A i \in Workers :
            /\ (Running /\ i \in Registered /\ isRepeating(tasks[i]))
                    ~> (stopRequested \/ pc[i] = "exec")
            /\ (Running /\ i \in Registered /\ isRepeating(tasks[i]) /\ pc[i] = "exec")
                    ~> (stopRequested \/ pc[i] = "body_endl")
            /\ (Running /\ i \in Registered /\ ~isRepeating(tasks[i]))
                    ~> (pc[i] = "done")

\* requestStop has never been called: a repeating worker is about to execute
\* for the third time at least, a non-repeating one has finished, and runAll
\* waits in its join loop.
C19_Witness ==
    /\ stopCalls = 0
    /\ ~stopRequested
    /\ runPc = "joining"
    /\ \E i, j \in Registered :
        /\ isRepeating(tasks[i]) /\ execCount[i] >= 2 /\ pc[i] = "exec"
        /\ ~isRepeating(tasks[j]) /\ pc[j] = "done"

\* The closed form of 1 + 2 + ... + n, and 0 for n <= 0.
Gauss(n) == IF n <= 0 THEN 0 ELSE (n * (n + 1)) \div 2

\* C20: whatever a ComputeTask's worker has executed, however many times and
\* whatever the other worker does meanwhile, the sum it printed is
\* limit * (limit + 1) / 2: 0 for a limit <= 0 and 5050 for the limit 100.
C20_SumIsGauss ==
    \A i \in Registered :
        (tasks[i].kind = "Compute" /\ execCount[i] >= 1) =>
            /\ sum[i] = Gauss(tasks[i].arg)
            /\ tasks[i].arg <= 0 => sum[i] = 0
            /\ tasks[i].arg = 100 => sum[i] = 5050

\* The limit 100 has been summed twice, 5050 each time, while the other worker
\* is at work.
C20_Witness ==
    /\ tasks[1].arg = 100
    /\ execCount[1] >= 2
    /\ pc[1] = "body_endl"
    /\ sum[1] = 5050
    /\ pc[2] \in Working

====
